---- MODULE Spec2Model ----
(***************************************************************************)
(* Model of the retrieval-and-answer pipeline of the AI Knowledge          *)
(* Assistant: RAGService (app/services/rag_service.py) and ChatService     *)
(* (app/services/chat_service.py).                                         *)
(*                                                                         *)
(* Requests are handled one at a time: the endpoints are `async def` and   *)
(* call the services synchronously, so every handler is one action.        *)
(* Python rows are 0-based; the sequences here are 1-based, so Python's    *)
(* `idx < len(self.documents)` reads `r <= Len(documents)`.                *)
(*                                                                         *)
(* An embedding is abstracted to its dimension and one coordinate x (the   *)
(* other coordinates are equal for all vectors), so the squared L2         *)
(* distance of two vectors is the square of the difference of their x.     *)
(***************************************************************************)
EXTENDS Integers, Sequences, FiniteSets

\* ---- bounds of the model -------------------------------------------------
\* number of uploads (rows of the documents table)
MaxDocs == 2

\* largest top_k passed to search_similar
MaxTopK == 4

\* number of float32 distances taken next to 0 and next to 1
MaxFine == 12

\* ---- program constants ---------------------------------------------------
dimension == 768
TOP_K_RESULTS == 3

\* ---- input sets ----------------------------------------------------------
\* the files handed to upload_document; chunks is what
\* self.text_splitter.split_text(content) returns for the extracted text
Files ==
    { [filename |-> "a.txt", chunks |-> << "c1", "c2" >>],
      [filename |-> "b.pdf", chunks |-> << "c3" >>] }
\* the same files and one of three chunks, all three nearer to the query
\* than the chunk of b.pdf
LongFiles ==
    Files \cup { [filename |-> "c.txt", chunks |-> << "c4", "c5", "c6" >>] }
\* the query text put to ChatService.query
Queries == { "q1" }
\* the query texts put to RAGService.get_context_for_query
SearchQueries == { "q1", "q2" }
\* the embedding model is a function of the text: the coordinate x of the
\* vector it answers with
EmbeddingOf(text) ==
    CASE text = "c1" -> 0
      [] text = "c2" -> 2
      [] text = "c3" -> 1
      [] text = "c4" -> 0
      [] text = "c5" -> 0
      [] text = "c6" -> 0
      [] text = "q1" -> 0
      [] text = "q2" -> 3
\* what one POST /api/embeddings may do: answer with the vector, fail
\* (transport error or non-2xx status), or answer with a vector of another
\* dimension
EmbedOutcomes == { "ok", "error", "bad_dim" }
EmbedReply(text, outcome) ==
    CASE outcome = "ok" -> [status |-> "ok", dim |-> dimension, x |-> EmbeddingOf(text)]
      [] outcome = "bad_dim" -> [status |-> "ok", dim |-> dimension \div 2, x |-> EmbeddingOf(text)]
      [] outcome = "error" -> [status |-> "error", dim |-> 0, x |-> 0]
\* replies of POST /api/generate: a body whose "response" is text with
\* surrounding whitespace, or a failure (transport error, non-2xx status,
\* body without "response")
GenErrors == { "ConnectionError", "HTTPError", "KeyError" }
GenReplies ==
    { [status |-> "ok", text |-> << " ", "answer", " " >>, err |-> "none"] } \cup
    { [status |-> "error", text |-> << >>, err |-> e] : e \in GenErrors }
\* what _save_index may do: write both files, fail in write_index, fail to
\* open the metadata file, or fail in pickle.dump after truncating it
SaveOutcomes == { "ok", "index_failed", "docs_open_failed", "docs_dump_failed" }

None == [state |-> "none"]
Absent == [state |-> "absent"]
Corrupt == [state |-> "corrupt"]
File(data) == [state |-> "ok", data |-> data]

VARIABLES
    index,        \* self.index: the rows of the FAISS IndexFlatL2
    documents,    \* self.documents: chunk metadata, one dict per chunk
    disk_index,   \* faiss_index.bin
    disk_docs,    \* faiss_documents.pkl
    db_documents, \* the documents table, row i is the document with id i
    redis_client, \* self.redis_client is not None
    cache,        \* the Redis keyspace: cache key -> stored string or None
    fresh,        \* the in-memory index was initialized empty, not loaded
    allOk,        \* no index_document call has raised since construction
    result,       \* what the last handler returned or raised
    tasks         \* the upload requests in flight: where each coroutine stands

vars == << index, documents, disk_index, disk_docs, db_documents, redis_client,
           cache, fresh, allOk, result, tasks >>

\* ---- RAGService ----------------------------------------------------------

\* chunk metadata dict; chunk_index is Python's enumerate index (0-based)
ChunkRecord(document_id, filename, i, chunk) ==
    [document_id |-> document_id, filename |-> filename,
     chunk_index |-> i - 1, content |-> chunk]

\* position of the first chunk whose _get_embedding raises, 0 if none
FirstFailure(replies) ==
    IF \E i \in 1..Len(replies) : replies[i].status = "error"
    THEN CHOOSE i \in 1..Len(replies) :
            /\ replies[i].status = "error"
            /\ \A j \in 1..(i - 1) : replies[j].status # "error"
    ELSE 0

\* number of loop iterations of index_document that reach documents.append
Appended(chunks, replies) ==
    IF FirstFailure(replies) = 0 THEN Len(chunks) ELSE FirstFailure(replies) - 1

\* a loop that puts the records of the call in front of the list
DocumentsAfterLoop_Prepends(docs0, document_id, filename, chunks, replies) ==
    [i \in 1..Appended(chunks, replies) |->
        ChunkRecord(document_id, filename, i, chunks[i])] \o docs0

\* self.documents after the embedding loop
DocumentsAfterLoop(docs0, document_id, filename, chunks, replies) ==
    docs0 \o [i \in 1..Appended(chunks, replies) |->
                ChunkRecord(document_id, filename, i, chunks[i])]

\* outcome of np.array(embeddings) followed by self.index.add(...)
AddError(replies) ==
    IF Len(replies) = 0 THEN "ValueError"
    ELSE IF \E i, j \in 1..Len(replies) : replies[i].dim # replies[j].dim THEN "ValueError"
    ELSE IF replies[1].dim # dimension THEN "AssertionError"
    ELSE "none"

\* the exception index_document raises, "none" if it returns
IndexError(replies) ==
    IF FirstFailure(replies) # 0 THEN "RequestException" ELSE AddError(replies)

\* index.add that drops the last vector of the batch
IndexAfterAdd_DropsLast(index0, replies) ==
    IF IndexError(replies) = "none"
    THEN index0 \o [i \in 1..(Len(replies) - 1) |-> [dim |-> replies[i].dim, x |-> replies[i].x]]
    ELSE index0

\* self.index after the call: index.add is reached only without exception
IndexAfterAdd(index0, replies) ==
    IF IndexError(replies) = "none"
    THEN index0 \o [i \in 1..Len(replies) |-> [dim |-> replies[i].dim, x |-> replies[i].x]]
    ELSE index0

\* f"doc_{document_id}_{len(chunks)}_chunks"
embedding_id(document_id, chunks) ==
    [state |-> "ok", document_id |-> document_id, nchunks |-> Len(chunks)]

\* faiss.write_index: the file holds the dimension, the row count and the
\* coordinates of the rows in row order
write_index(index1) ==
    [d |-> dimension, ntotal |-> Len(index1),
     codes |-> [i \in 1..Len(index1) |-> index1[i].x]]

\* faiss.read_index that returns the rows in reverse order
read_index_Reversed(bytes) ==
    [i \in 1..bytes.ntotal |-> [dim |-> bytes.d, x |-> bytes.codes[bytes.ntotal + 1 - i]]]

\* faiss.read_index: the rows rebuilt from the file
read_index(bytes) ==
    [i \in 1..bytes.ntotal |-> [dim |-> bytes.d, x |-> bytes.codes[i]]]

\* pickle.dump(self.documents, f): the list as one tuple of field values per
\* dict
pickle_dump(docs1) ==
    [i \in 1..Len(docs1) |->
        << docs1[i].document_id, docs1[i].filename, docs1[i].chunk_index, docs1[i].content >>]

\* pickle.load(f): the list of dicts rebuilt from the file
pickle_load(bytes) ==
    [i \in 1..Len(bytes) |->
        [document_id |-> bytes[i][1], filename |-> bytes[i][2],
         chunk_index |-> bytes[i][3], content |-> bytes[i][4]]]

\* _save_index: write_index then pickle.dump, any exception swallowed
SavedIndex(old, index1, outcome) ==
    IF outcome = "index_failed" THEN old ELSE File(write_index(index1))

SavedDocs(old, docs1, outcome) ==
    CASE outcome = "ok" -> File(pickle_dump(docs1))
      [] outcome = "index_failed" -> old
      [] outcome = "docs_open_failed" -> old
      [] outcome = "docs_dump_failed" -> Corrupt

\* an index_document that logs an exception of index.add and returns
index_document_SwallowsAddError(document_id, filename, chunks, replies, outcome) ==
    LET failed == FirstFailure(replies) # 0
        docs1 == DocumentsAfterLoop(documents, document_id, filename, chunks, replies)
        index1 == IndexAfterAdd(index, replies)
    IN  [documents |-> docs1,
         index |-> index1,
         disk_index |-> IF ~failed THEN SavedIndex(disk_index, index1, outcome)
                        ELSE disk_index,
         disk_docs |-> IF ~failed THEN SavedDocs(disk_docs, docs1, outcome)
                       ELSE disk_docs,
         error |-> IF failed THEN "RequestException" ELSE "none",
         ret |-> IF ~failed THEN embedding_id(document_id, chunks) ELSE None]

\* index_document: what it leaves in memory and on disk, and what it
\* returns or raises
index_document(document_id, filename, chunks, replies, outcome) ==
    LET err == IndexError(replies)
        docs1 == DocumentsAfterLoop(documents, document_id, filename, chunks, replies)
        index1 == IndexAfterAdd(index, replies)
    IN  [documents |-> docs1,
         index |-> index1,
         disk_index |-> IF err = "none" THEN SavedIndex(disk_index, index1, outcome)
                        ELSE disk_index,
         disk_docs |-> IF err = "none" THEN SavedDocs(disk_docs, docs1, outcome)
                       ELSE disk_docs,
         error |-> err,
         ret |-> IF err = "none" THEN embedding_id(document_id, chunks) ELSE None]

\* _load_index followed, on a missing or unreadable artifact, by
\* _initialize_index: the pair (index, documents) the constructor leaves
LoadedFromDisk(di, dd) == di.state = "ok" /\ dd.state = "ok"

\* an except branch without _initialize_index: the index read at line 48
\* stays when pickle.load fails
LoadedIndex_KeepsIndex(di, dd) ==
    IF di.state = "ok" /\ dd.state # "absent" THEN read_index(di.data) ELSE << >>

LoadedIndex(di, dd) == IF LoadedFromDisk(di, dd) THEN read_index(di.data) ELSE << >>

LoadedDocuments(di, dd) == IF LoadedFromDisk(di, dd) THEN pickle_load(dd.data) ELSE << >>

\* squared L2 distance of the query vector to row r
Distance(index0, qx, r) == (index0[r].x - qx) * (index0[r].x - qx)

\* a ranking by descending distance
Rank_Farthest(index0, qx, r) ==
    1 + Cardinality({ s \in 1..Len(index0) :
                        \/ Distance(index0, qx, s) > Distance(index0, qx, r)
                        \/ (Distance(index0, qx, s) = Distance(index0, qx, r) /\ s < r) })

\* position of row r in the ranking by ascending distance (ties: lower row)
Rank(index0, qx, r) ==
    1 + Cardinality({ s \in 1..Len(index0) :
                        \/ Distance(index0, qx, s) < Distance(index0, qx, r)
                        \/ (Distance(index0, qx, s) = Distance(index0, qx, r) /\ s < r) })

Min(a, b) == IF a <= b THEN a ELSE b

\* self.index.search(query_vector, k): the k nearest rows, nearest first
IndexSearch(index0, qx, k) ==
    [i \in 1..k |-> CHOOSE r \in 1..Len(index0) : Rank(index0, qx, r) = i]

\* similarity = 1 / (1 + distance), kept as a fraction
Similarity(d) == [num |-> 1, den |-> 1 + d]

\* float32 numbers are written as whole multiples of 2^-26
Unit == 2 ^ 26

\* the float32 distances put to the similarity formula: the whole distances
\* of the model's vectors, and the float32 numbers next to 0 and next to 1
Distances32 ==
    { k * Unit : k \in 0..9 } \cup (0..MaxFine) \cup { Unit + 8 * j : j \in 0..MaxFine }

\* the gap between neighbouring float32 numbers at X >= 1 (24-bit
\* significand)
Ulp(X) == CHOOSE u \in { 2 ^ j : j \in 3..7 } : u * (2 ^ 23) <= X /\ X < u * (2 ^ 24)

\* X rounded to the nearest float32, ties to the even significand
Float32(X) ==
    LET u == Ulp(X)
        lo == X \div u
        r == X % u
    IN  IF 2 * r < u THEN lo * u
        ELSE IF 2 * r > u THEN (lo + 1) * u
        ELSE IF lo % 2 = 0 THEN lo * u ELSE (lo + 1) * u

\* 1 / distance
similarity_NoOne(distance) == [num |-> Unit, den |-> distance]

\* `similarity = 1 / (1 + distance)` on the numpy.float32 the search
\* returns: the sum is rounded to float32; the quotient is kept as the
\* fraction of 1 and the rounded sum
similarity(distance) == [num |-> Unit, den |-> Float32(Unit + distance)]

RECURSIVE KeepKnownRows(_, _, _, _)
\* the loop of search_similar: rows without a chunk record are skipped
KeepKnownRows(index0, docs0, qx, rows) ==
    IF rows = << >> THEN << >>
    ELSE LET r == Head(rows)
             rest == KeepKnownRows(index0, docs0, qx, Tail(rows))
         IN  IF r <= Len(docs0)
             THEN << [chunk |-> docs0[r], score |-> Similarity(Distance(index0, qx, r))] >> \o rest
             ELSE rest

\* an early return that tests len(self.documents) instead of index.ntotal
IndexIsEmpty_ChecksDocuments(index0) == Len(documents) = 0

\* search_similar that never takes the early return
IndexIsEmpty_Never(index0) == FALSE

\* `if self.index.ntotal == 0`: the early return of search_similar
IndexIsEmpty(index0) == Len(index0) = 0

\* search_similar once the query embedding qx is known (index not empty)
search_similar(index0, docs0, qx, top_k) ==
    KeepKnownRows(index0, docs0, qx, IndexSearch(index0, qx, Min(top_k, Len(index0))))

\* search_similar(query, top_k): emb is what the embedding backend does;
\* an exception of _get_embedding or of index.search leaves the method
search_similar_call(q, top_k, emb) ==
    LET reply == EmbedReply(q, emb)
    IN  IF IndexIsEmpty(index)
        THEN [status |-> "ok", error |-> "none", similar |-> << >>, calls |-> { }]
        ELSE IF reply.status = "error"
        THEN [status |-> "raised", error |-> "RequestException", similar |-> << >>,
              calls |-> { "embed" }]
        ELSE IF reply.dim # dimension
        THEN [status |-> "raised", error |-> "AssertionError", similar |-> << >>,
              calls |-> { "embed", "search" }]
        ELSE [status |-> "ok", error |-> "none",
              similar |-> search_similar(index, documents, reply.x, top_k),
              calls |-> { "embed", "search" }]

\* a source list with one entry per retrieved chunk
BuildSources_NoDedupe(similar_chunks, seen_docs) ==
    [i \in 1..Len(similar_chunks) |->
        [document_id |-> similar_chunks[i].chunk.document_id,
         filename |-> similar_chunks[i].chunk.filename,
         relevance_score |-> similar_chunks[i].score]]

RECURSIVE BuildSources(_, _)
\* the source list of get_context_for_query: first chunk of a document wins
BuildSources(similar_chunks, seen_docs) ==
    IF similar_chunks = << >> THEN << >>
    ELSE LET c == Head(similar_chunks)
             doc_id == c.chunk.document_id
         IN  IF doc_id \notin seen_docs
             THEN << [document_id |-> doc_id, filename |-> c.chunk.filename,
                      relevance_score |-> c.score] >>
                  \o BuildSources(Tail(similar_chunks), seen_docs \cup { doc_id })
             ELSE BuildSources(Tail(similar_chunks), seen_docs)

\* context: the chunk contents in rank order, "\n\n---\n\n" between them
BuildContext(similar_chunks) ==
    [i \in 1..(2 * Len(similar_chunks) - 1) |->
        IF i % 2 = 1 THEN similar_chunks[(i + 1) \div 2].chunk.content ELSE "---"]

\* get_context_for_query(query): search with the default top_k, then the
\* pair (context, sources); ("", []) when nothing was retrieved
get_context_for_query(q, emb) ==
    LET s == search_similar_call(q, TOP_K_RESULTS, emb)
    IN  IF s.status = "raised" \/ s.similar = << >>
        THEN [status |-> s.status, error |-> s.error, similar |-> s.similar,
              calls |-> s.calls, context |-> << >>, sources |-> << >>]
        ELSE [status |-> "ok", error |-> "none", similar |-> s.similar, calls |-> s.calls,
              context |-> BuildContext(s.similar),
              sources |-> BuildSources(s.similar, { })]

\* a caller of RAGService.search_similar
SearchSimilar ==
    \E q \in SearchQueries, top_k \in 1..MaxTopK, emb \in EmbedOutcomes :
        LET s == search_similar_call(q, top_k, emb)
        IN  /\ result' = [op |-> "search_similar", q |-> q, top_k |-> top_k, emb |-> emb,
                          status |-> s.status, error |-> s.error, similar |-> s.similar,
                          calls |-> s.calls]
            /\ UNCHANGED << index, documents, disk_index, disk_docs, db_documents,
                            redis_client, cache, fresh, allOk, tasks >>

\* a caller of RAGService.get_context_for_query
GetContextForQuery ==
    \E q \in SearchQueries, emb \in EmbedOutcomes :
        LET c == get_context_for_query(q, emb)
        IN  /\ result' = [op |-> "get_context_for_query", q |-> q, emb |-> emb,
                          status |-> c.status, error |-> c.error, similar |-> c.similar,
                          calls |-> c.calls, context |-> c.context, sources |-> c.sources]
            /\ UNCHANGED << index, documents, disk_index, disk_docs, db_documents,
                            redis_client, cache, fresh, allOk, tasks >>

\* the similarity formula applied to two distances a search returned
ComputeSimilarity ==
    \E d1 \in Distances32, d2 \in Distances32 :
        /\ result' = [op |-> "similarity", d1 |-> d1, d2 |-> d2,
                      s1 |-> similarity(d1), s2 |-> similarity(d2)]
        /\ UNCHANGED << index, documents, disk_index, disk_docs, db_documents,
                        redis_client, cache, fresh, allOk, tasks >>

\* ---- DocumentService ----------------------------------------------------

\* an upload that drops every cache entry once the corpus has changed
upload_document_Invalidates(file, outcomes, save) ==
    LET document_id == Len(db_documents) + 1
        replies == [i \in 1..Len(file.chunks) |-> EmbedReply(file.chunks[i], outcomes[i])]
        r == index_document(document_id, file.filename, file.chunks, replies, save)
    IN  /\ documents' = r.documents
        /\ index' = r.index
        /\ disk_index' = r.disk_index
        /\ disk_docs' = r.disk_docs
        /\ db_documents' = Append(db_documents,
                                  [filename |-> file.filename, embedding_id |-> r.ret])
        /\ allOk' = (allOk /\ r.error = "none")
        /\ result' = [op |-> "upload_document",
                      status |-> IF r.error = "none" THEN "ok" ELSE "raised",
                      http |-> IF r.error = "none" THEN 200 ELSE 500,
                      error |-> r.error,
                      embedFailed |-> FirstFailure(replies) # 0,
                      badDim |-> \E i \in 1..Len(replies) :
                                    /\ replies[i].status = "ok"
                                    /\ replies[i].dim # dimension
                                    /\ (FirstFailure(replies) = 0
                                        \/ i < FirstFailure(replies))]
        /\ cache' = [k \in DOMAIN cache |-> IF r.error = "none" THEN None ELSE cache[k]]
        /\ UNCHANGED << redis_client, fresh, tasks >>

\* upload_document after validation and text extraction: create the row,
\* index, then set embedding_id or answer HTTP 500
upload_document(file, outcomes, save) ==
    LET document_id == Len(db_documents) + 1
        replies == [i \in 1..Len(file.chunks) |-> EmbedReply(file.chunks[i], outcomes[i])]
        r == index_document(document_id, file.filename, file.chunks, replies, save)
    IN  /\ documents' = r.documents
        /\ index' = r.index
        /\ disk_index' = r.disk_index
        /\ disk_docs' = r.disk_docs
        /\ db_documents' = Append(db_documents,
                                  [filename |-> file.filename, embedding_id |-> r.ret])
        /\ allOk' = (allOk /\ r.error = "none")
        /\ result' = [op |-> "upload_document",
                      status |-> IF r.error = "none" THEN "ok" ELSE "raised",
                      http |-> IF r.error = "none" THEN 200 ELSE 500,
                      error |-> r.error,
                      embedFailed |-> FirstFailure(replies) # 0,
                      badDim |-> \E i \in 1..Len(replies) :
                                    /\ replies[i].status = "ok"
                                    /\ replies[i].dim # dimension
                                    /\ (FirstFailure(replies) = 0
                                        \/ i < FirstFailure(replies))]
        /\ UNCHANGED << redis_client, cache, fresh, tasks >>

UploadFrom(files, saves) ==
    \E file \in files :
      \E outcomes \in [1..Len(file.chunks) -> EmbedOutcomes] :
        /\ Len(db_documents) < MaxDocs
        /\ IF \A i \in 1..Len(file.chunks) : outcomes[i] = "ok"
           THEN \E save \in saves : upload_document(file, outcomes, save)
           ELSE upload_document(file, outcomes, "ok")

UploadWith(saves) == UploadFrom(Files, saves)

\* uploads of the longer files whose embeddings succeed, with every outcome
\* of the save
UploadLong ==
    \E file \in LongFiles, save \in SaveOutcomes :
        /\ Len(db_documents) < MaxDocs
        /\ upload_document(file, [i \in 1..Len(file.chunks) |-> "ok"], save)

UploadDocument == UploadWith(SaveOutcomes)

UploadDocumentSaved == UploadWith({ "ok" })

Restart ==
    /\ index' = LoadedIndex(disk_index, disk_docs)
    /\ documents' = LoadedDocuments(disk_index, disk_docs)
    /\ fresh' = ~LoadedFromDisk(disk_index, disk_docs)
    /\ allOk' = TRUE
    /\ redis_client' \in BOOLEAN
    /\ result' = [op |-> "restart"]
    /\ UNCHANGED << disk_index, disk_docs, db_documents, cache, tasks >>

\* ---- upload requests as coroutines of the event loop ---------------------

\* two POST /documents/upload requests in flight at once
Uploaders == { 1, 2 }

\* two POST /chat/query requests in flight at once
Askers == { 3, 4 }

IdleTask ==
    [pc |-> "idle", status |-> "none", filename |-> "", chunks |-> << >>, document_id |-> 0,
     replies |-> << >>, overlap |-> FALSE,
     q |-> "", data |-> None, readOk |-> TRUE, cached |-> FALSE, last |-> FALSE]

\* an embedding call that is awaited: the loop runs other coroutines while
\* a request waits for the backend
BlockingPositions_AwaitedEmbedding == { "adding", "saving" }

\* positions inside index_document: from its first statement to its return
\* the code has no await (requests.post blocks), so the event loop runs no
\* other coroutine while a request stands at one of them
BlockingPositions == { "embedding", "adding", "saving" }

\* endpoints run in worker threads: every request may take a step at any
\* time
EventLoopFree_Threads(t) == TRUE

\* the endpoints are `async def`: request t runs only while no other
\* request is inside a stretch of code without await
EventLoopFree(t) ==
    \A u \in Uploaders \ { t } : tasks[u].pc \notin BlockingPositions

UploadResult(error, replies, embedFailed) ==
    [op |-> "upload_document",
     status |-> IF error = "none" THEN "ok" ELSE "raised",
     http |-> IF error = "none" THEN 200 ELSE 500,
     error |-> error,
     embedFailed |-> embedFailed,
     badDim |-> \E i \in 1..Len(replies) : replies[i].dim # dimension]

\* the endpoint is entered and upload_document runs up to
\* `await extract_text_from_file(file)`, where the coroutine is suspended
ReceiveUpload(t) ==
    /\ tasks[t].pc = "idle"
    /\ EventLoopFree(t)
    /\ \E file \in Files :
          tasks' = [tasks EXCEPT ![t] = [IdleTask EXCEPT !.pc = "extracting",
                                                        !.filename = file.filename,
                                                        !.chunks = file.chunks]]
    /\ UNCHANGED << index, documents, disk_index, disk_docs, db_documents, redis_client,
                    cache, fresh, allOk, result >>

\* the coroutine resumes with the text: doc_repo.create gives the row, and
\* index_document is entered
ResumeUpload(t) ==
    /\ tasks[t].pc = "extracting"
    /\ EventLoopFree(t)
    /\ Len(db_documents) < MaxDocs
    /\ db_documents' = Append(db_documents,
                              [filename |-> tasks[t].filename, embedding_id |-> None])
    /\ tasks' = [tasks EXCEPT ![t].pc = "embedding",
                              ![t].document_id = Len(db_documents) + 1,
                              ![t].overlap = \E u \in Uploaders \ { t } :
                                                tasks[u].pc \notin { "idle", "done" }]
    /\ UNCHANGED << index, documents, disk_index, disk_docs, redis_client, cache, fresh,
                    allOk, result >>

\* one iteration of the loop of index_document: _get_embedding, then
\* self.documents.append; an exception ends the request with HTTP 500
EmbedChunk(t) ==
    /\ tasks[t].pc = "embedding"
    /\ EventLoopFree(t)
    /\ \E outcome \in EmbedOutcomes :
          LET i == Len(tasks[t].replies) + 1
              reply == EmbedReply(tasks[t].chunks[i], outcome)
          IN  IF reply.status = "error"
              THEN /\ tasks' = [tasks EXCEPT ![t].pc = "done", ![t].status = "raised"]
                   /\ result' = UploadResult("RequestException", tasks[t].replies, TRUE)
                   /\ allOk' = FALSE
                   /\ UNCHANGED documents
              ELSE /\ documents' = Append(documents,
                                          ChunkRecord(tasks[t].document_id, tasks[t].filename,
                                                      i, tasks[t].chunks[i]))
                   /\ tasks' = [tasks EXCEPT
                                  ![t].replies = Append(tasks[t].replies, reply),
                                  ![t].pc = IF i = Len(tasks[t].chunks) THEN "adding"
                                            ELSE "embedding"]
                   /\ UNCHANGED << allOk, result >>
    /\ UNCHANGED << index, disk_index, disk_docs, db_documents, redis_client, cache, fresh >>

\* np.array(embeddings) and self.index.add
AddVectors(t) ==
    /\ tasks[t].pc = "adding"
    /\ EventLoopFree(t)
    /\ index' = IndexAfterAdd(index, tasks[t].replies)
    /\ IF AddError(tasks[t].replies) # "none"
       THEN /\ tasks' = [tasks EXCEPT ![t].pc = "done", ![t].status = "raised"]
            /\ result' = UploadResult(AddError(tasks[t].replies), tasks[t].replies, FALSE)
            /\ allOk' = FALSE
       ELSE /\ tasks' = [tasks EXCEPT ![t].pc = "saving"]
            /\ UNCHANGED << allOk, result >>
    /\ UNCHANGED << documents, disk_index, disk_docs, db_documents, redis_client, cache,
                    fresh >>

\* _save_index, the return of index_document, and the commit of
\* embedding_id by upload_document
SaveAndReturn(t) ==
    /\ tasks[t].pc = "saving"
    /\ EventLoopFree(t)
    /\ disk_index' = SavedIndex(disk_index, index, "ok")
    /\ disk_docs' = SavedDocs(disk_docs, documents, "ok")
    /\ db_documents' = [db_documents EXCEPT
                          ![tasks[t].document_id].embedding_id =
                              embedding_id(tasks[t].document_id, tasks[t].chunks)]
    /\ tasks' = [tasks EXCEPT ![t].pc = "done", ![t].status = "ok"]
    /\ result' = UploadResult("none", tasks[t].replies, FALSE)
    /\ UNCHANGED << index, documents, redis_client, cache, fresh, allOk >>

\* where the process may die inside _save_index: while write_index is
\* writing, between the two writes, while pickle.dump is writing
CrashPoints == { "in_write_index", "after_write_index", "in_pickle_dump" }

\* an upload whose embeddings and index.add succeed and whose process dies
\* inside _save_index, followed by the start of a new process, whose
\* RAGService constructor loads what the dead one left on disk
CrashInSave ==
    \E file \in Files, point \in CrashPoints :
        LET document_id == Len(db_documents) + 1
            replies == [i \in 1..Len(file.chunks) |-> EmbedReply(file.chunks[i], "ok")]
            docs1 == DocumentsAfterLoop(documents, document_id, file.filename, file.chunks,
                                        replies)
            index1 == IndexAfterAdd(index, replies)
            di == IF point = "in_write_index" THEN Corrupt ELSE File(write_index(index1))
            dd == IF point = "in_pickle_dump" THEN Corrupt ELSE disk_docs
        IN  /\ Len(db_documents) < MaxDocs
            /\ disk_index' = di
            /\ disk_docs' = dd
            /\ db_documents' = Append(db_documents,
                                      [filename |-> file.filename, embedding_id |-> None])
            /\ index' = LoadedIndex(di, dd)
            /\ documents' = LoadedDocuments(di, dd)
            /\ fresh' = ~LoadedFromDisk(di, dd)
            /\ allOk' = TRUE
            /\ redis_client' \in BOOLEAN
            /\ result' = [op |-> "crash", point |-> point,
                          post |-> [index |-> index1, documents |-> docs1]]
            /\ UNCHANGED << cache, tasks >>

\* ---- ChatService ---------------------------------------------------------

\* f"chat:{md5(query)}": one key per query text
get_cache_key(q) == << "chat:", q >>

CacheKeys == { get_cache_key(q) : q \in Queries }

\* json.dumps that keeps only the first source
json_dumps_FirstSourceOnly(data) ==
    << data.response,
       [i \in 1..Min(1, Len(data.sources)) |->
          << data.sources[i].document_id, data.sources[i].filename,
             data.sources[i].relevance_score.num, data.sources[i].relevance_score.den >>] >>

\* json.dumps of {"response": ..., "sources": [...]}: the text, then one
\* tuple of field values per source
json_dumps(data) ==
    << data.response,
       [i \in 1..Len(data.sources) |->
          << data.sources[i].document_id, data.sources[i].filename,
             data.sources[i].relevance_score.num, data.sources[i].relevance_score.den >>] >>

\* json.loads that loses the sources
json_loads_NoSources(text) ==
    [response |-> text[1], sources |-> << >>]

json_loads(text) ==
    [response |-> text[1],
     sources |-> [i \in 1..Len(text[2]) |->
                    [document_id |-> text[2][i][1], filename |-> text[2][i][2],
                     relevance_score |-> [num |-> text[2][i][3], den |-> text[2][i][4]]]]]

Stored(text) == [state |-> "set", value |-> text]

\* _get_cached_response without its try/except: a Redis error escapes
get_cached_response_NoTry(q, readOk) ==
    IF ~redis_client THEN None
    ELSE IF ~readOk THEN [state |-> "raised"]
    ELSE IF cache[get_cache_key(q)].state = "set"
         THEN [state |-> "hit", data |-> json_loads(cache[get_cache_key(q)].value)]
         ELSE None

\* _get_cached_response: None without a client, on a Redis error and on a
\* missing key; otherwise the decoded entry
get_cached_response(q, readOk) ==
    IF ~redis_client THEN None
    ELSE IF ~readOk THEN None
    ELSE IF cache[get_cache_key(q)].state = "set"
         THEN [state |-> "hit", data |-> json_loads(cache[get_cache_key(q)].value)]
         ELSE None

\* a write that replaces the answer of an existing entry and keeps its
\* sources
cache_response_KeepsOldSources(q, data, writeOk) ==
    IF redis_client /\ writeOk
    THEN IF cache[get_cache_key(q)].state = "set"
         THEN [cache EXCEPT ![get_cache_key(q)] =
                 Stored(json_dumps([response |-> data.response,
                                    sources |-> json_loads(cache[get_cache_key(q)].value).sources]))]
         ELSE [cache EXCEPT ![get_cache_key(q)] = Stored(json_dumps(data))]
    ELSE cache

\* the keyspace after _cache_response: setex unless there is no client or
\* Redis raises
cache_response(q, data, writeOk) ==
    IF redis_client /\ writeOk
    THEN [cache EXCEPT ![get_cache_key(q)] = Stored(json_dumps(data))]
    ELSE cache

NoDocumentsAnswer == << "I don't have any documents to answer your question." >>

\* f"Error generating response: {str(e)}"
ErrorAnswer(e) == << "Error generating response: ", e >>

RECURSIVE lstrip(_)
lstrip(text) ==
    IF text # << >> /\ Head(text) = " " THEN lstrip(Tail(text)) ELSE text

RECURSIVE rstrip(_)
rstrip(text) ==
    IF text # << >> /\ text[Len(text)] = " "
    THEN rstrip(SubSeq(text, 1, Len(text) - 1))
    ELSE text

\* response_data.json()["response"].strip()
strip(text) == rstrip(lstrip(text))

\* a try/except around the generation call that lets a malformed body
\* (KeyError) escape
Generate_NarrowExcept(gen, sources) ==
    IF gen.status = "ok"
    THEN [status |-> "ok", error |-> "none", response |-> strip(gen.text), sources |-> sources]
    ELSE IF gen.err = "KeyError"
    THEN [status |-> "raised", error |-> gen.err, response |-> << >>, sources |-> << >>]
    ELSE [status |-> "ok", error |-> "none", response |-> ErrorAnswer(gen.err),
          sources |-> << >>]

\* an except branch that keeps the sources of retrieval
Generate_KeepsSources(gen, sources) ==
    IF gen.status = "ok"
    THEN [status |-> "ok", error |-> "none", response |-> strip(gen.text), sources |-> sources]
    ELSE [status |-> "ok", error |-> "none", response |-> ErrorAnswer(gen.err),
          sources |-> sources]

\* the try/except around the generation call: the stripped text and the
\* sources of retrieval, or the error string and no sources
Generate(gen, sources) ==
    IF gen.status = "ok"
    THEN [status |-> "ok", error |-> "none", response |-> strip(gen.text), sources |-> sources]
    ELSE [status |-> "ok", error |-> "none", response |-> ErrorAnswer(gen.err),
          sources |-> << >>]

\* an endpoint that saves the exchange of every answered query
history_records_Always(status, cached) ==
    IF status = "ok" THEN 1 ELSE 0

\* query_chat after chat_service.query: the number of chat-history records
\* it creates; an exception of query leaves the endpoint before the write
history_records(status, cached) ==
    IF status = "ok" /\ ~cached THEN 1 ELSE 0

\* a query that turns every exception into an error-string answer
QueryResult_NoRaise(q, status, error, response, sources, cached, outcome, calls, readOk, writeOk) ==
    [op |-> "query", q |-> q, status |-> "ok", error |-> "none",
     response |-> IF status = "raised" THEN ErrorAnswer(error) ELSE response,
     sources |-> sources, cached |-> cached,
     outcome |-> outcome, calls |-> calls,
     history |-> history_records("ok", cached),
     readFailed |-> (redis_client /\ ~readOk),
     writeFailed |-> (redis_client /\ ~writeOk /\ "cache_set" \in calls)]

QueryResult(q, status, error, response, sources, cached, outcome, calls, readOk, writeOk) ==
    [op |-> "query", q |-> q, status |-> status, error |-> error,
     response |-> response, sources |-> sources, cached |-> cached,
     outcome |-> outcome, calls |-> calls,
     history |-> history_records(status, cached),
     readFailed |-> (redis_client /\ ~readOk),
     writeFailed |-> (redis_client /\ ~writeOk /\ "cache_set" \in calls)]

CallsOnMiss == IF redis_client THEN { "cache_get" } ELSE { }

CallsOnWrite == IF redis_client THEN { "cache_set" } ELSE { }

\* ChatService.query: emb is what the embedding backend does, gen the
\* reply of the generation backend, readOk and writeOk whether Redis
\* serves the get and the setex.  An exception that a callee lets escape
\* leaves query.
query(q, readOk, emb, gen, writeOk) ==
    LET cached == get_cached_response(q, readOk)
        reply == EmbedReply(q, emb)
        similar_chunks == search_similar(index, documents, reply.x, TOP_K_RESULTS)
        context == BuildContext(similar_chunks)
        g == Generate(gen, BuildSources(similar_chunks, { }))
    IN  IF cached.state = "raised"
        THEN /\ result' = QueryResult(q, "raised", "RedisError", << >>, << >>, FALSE,
                                      "CACHE_FAILED", { "cache_get" }, readOk, writeOk)
             /\ cache' = cache
        ELSE IF cached.state = "hit"
        THEN /\ result' = QueryResult(q, "ok", "none", cached.data.response,
                                      cached.data.sources, TRUE, "CACHE_HIT",
                                      { "cache_get" }, readOk, writeOk)
             /\ cache' = cache
        ELSE IF IndexIsEmpty(index)
        THEN /\ result' = QueryResult(q, "ok", "none", NoDocumentsAnswer, << >>, FALSE,
                                      "EMPTY_CORPUS", CallsOnMiss, readOk, writeOk)
             /\ cache' = cache
        ELSE IF reply.status = "error"
        THEN /\ result' = QueryResult(q, "raised", "RequestException", << >>, << >>, FALSE,
                                      "EMBED_FAILED", CallsOnMiss \cup { "embed" },
                                      readOk, writeOk)
             /\ cache' = cache
        ELSE IF reply.dim # dimension
        THEN /\ result' = QueryResult(q, "raised", "AssertionError", << >>, << >>, FALSE,
                                      "EMBED_FAILED", CallsOnMiss \cup { "embed", "search" },
                                      readOk, writeOk)
             /\ cache' = cache
        ELSE IF context = << >>
        THEN /\ result' = QueryResult(q, "ok", "none", NoDocumentsAnswer, << >>, FALSE,
                                      "EMPTY_CORPUS", CallsOnMiss \cup { "embed", "search" },
                                      readOk, writeOk)
             /\ cache' = cache
        ELSE IF g.status = "raised"
        THEN /\ result' = QueryResult(q, "raised", g.error, << >>, << >>, FALSE,
                                      "GENERATION_FAILED",
                                      CallsOnMiss \cup { "embed", "search", "generate" },
                                      readOk, writeOk)
             /\ cache' = cache
        ELSE /\ result' = QueryResult(q, "ok", "none", g.response, g.sources, FALSE,
                                      IF gen.status = "ok" THEN "GENERATION_OK"
                                      ELSE "GENERATION_FAILED",
                                      CallsOnMiss \cup { "embed", "search", "generate" }
                                          \cup CallsOnWrite,
                                      readOk, writeOk)
             /\ cache' = cache_response(q, [response |-> g.response, sources |-> g.sources],
                                        writeOk)

\* a query that first cuts the metadata list to the size of the index
Query_TrimsDocuments ==
    \E q \in Queries, readOk \in (IF redis_client THEN BOOLEAN ELSE { TRUE }) :
      /\ documents' = SubSeq(documents, 1, Min(Len(documents), Len(index)))
      /\ UNCHANGED << index, disk_index, disk_docs, db_documents, redis_client,
                      fresh, allOk, tasks >>
      /\ IF get_cached_response(q, readOk) # None \/ IndexIsEmpty(index)
         THEN query(q, readOk, "ok", CHOOSE g \in GenReplies : g.status = "ok", TRUE)
         ELSE \E emb \in EmbedOutcomes :
                IF emb # "ok"
                THEN query(q, readOk, emb, CHOOSE g \in GenReplies : g.status = "ok", TRUE)
                ELSE \E gen \in GenReplies,
                        writeOk \in (IF redis_client THEN BOOLEAN ELSE { TRUE }) :
                       query(q, readOk, emb, gen, writeOk)

\* the backends are drawn only where query reaches them
Query ==
    \E q \in Queries, readOk \in (IF redis_client THEN BOOLEAN ELSE { TRUE }) :
      /\ UNCHANGED << index, documents, disk_index, disk_docs, db_documents, redis_client,
                      fresh, allOk, tasks >>
      /\ IF get_cached_response(q, readOk) # None \/ IndexIsEmpty(index)
         THEN query(q, readOk, "ok", CHOOSE g \in GenReplies : g.status = "ok", TRUE)
         ELSE \E emb \in EmbedOutcomes :
                IF emb # "ok"
                THEN query(q, readOk, emb, CHOOSE g \in GenReplies : g.status = "ok", TRUE)
                ELSE \E gen \in GenReplies,
                        writeOk \in (IF redis_client THEN BOOLEAN ELSE { TRUE }) :
                       query(q, readOk, emb, gen, writeOk)

\* query after a cache miss, up to the cache write: what it will return or
\* raise, which backends it calls, and whether it reaches _cache_response
query_miss(q, emb, gen) ==
    LET reply == EmbedReply(q, emb)
        similar_chunks == search_similar(index, documents, reply.x, TOP_K_RESULTS)
        context == BuildContext(similar_chunks)
        g == Generate(gen, BuildSources(similar_chunks, { }))
        Miss(status, error, response, sources, outcome, calls, write) ==
            [state |-> "miss", status |-> status, error |-> error, response |-> response,
             sources |-> sources, outcome |-> outcome, calls |-> calls, write |-> write]
    IN  IF IndexIsEmpty(index)
        THEN Miss("ok", "none", NoDocumentsAnswer, << >>, "EMPTY_CORPUS", { }, FALSE)
        ELSE IF reply.status = "error"
        THEN Miss("raised", "RequestException", << >>, << >>, "EMBED_FAILED", { "embed" },
                  FALSE)
        ELSE IF reply.dim # dimension
        THEN Miss("raised", "AssertionError", << >>, << >>, "EMBED_FAILED",
                  { "embed", "search" }, FALSE)
        ELSE IF context = << >>
        THEN Miss("ok", "none", NoDocumentsAnswer, << >>, "EMPTY_CORPUS",
                  { "embed", "search" }, FALSE)
        ELSE IF g.status = "raised"
        THEN Miss("raised", g.error, << >>, << >>, "GENERATION_FAILED",
                  { "embed", "search", "generate" }, FALSE)
        ELSE Miss("ok", "none", g.response, g.sources,
                  IF gen.status = "ok" THEN "GENERATION_OK" ELSE "GENERATION_FAILED",
                  { "embed", "search", "generate" }, TRUE)

\* request t: query from its first statement to the point before
\* _cache_response; a hit, the canned answer and an exception end it here
BeginQuery(t) ==
    /\ tasks[t].pc = "idle"
    /\ \E q \in Queries, readOk \in (IF redis_client THEN BOOLEAN ELSE { TRUE }) :
          LET cached == get_cached_response(q, readOk)
              Ends(m) ==
                /\ tasks' = [tasks EXCEPT ![t].pc = "done", ![t].status = m.status,
                                          ![t].q = q, ![t].data = m, ![t].readOk = readOk]
                /\ result' = QueryResult(q, m.status, m.error, m.response, m.sources, FALSE,
                                         m.outcome, CallsOnMiss \cup m.calls, readOk, TRUE)
              Goes(m) ==
                IF m.write
                THEN /\ tasks' = [tasks EXCEPT
                                    ![t].pc = "writing", ![t].q = q, ![t].data = m,
                                    ![t].readOk = readOk,
                                    ![t].overlap = \E u \in Askers \ { t } :
                                                      tasks[u].pc = "writing"]
                     /\ UNCHANGED result
                ELSE Ends(m)
          IN  IF cached.state = "hit"
              THEN /\ tasks' = [tasks EXCEPT ![t].pc = "done", ![t].status = "ok",
                                             ![t].q = q, ![t].readOk = readOk,
                                             ![t].cached = TRUE]
                   /\ result' = QueryResult(q, "ok", "none", cached.data.response,
                                            cached.data.sources, TRUE, "CACHE_HIT",
                                            { "cache_get" }, readOk, TRUE)
              ELSE IF IndexIsEmpty(index)
              THEN Ends(query_miss(q, "ok", CHOOSE g \in GenReplies : g.status = "ok"))
              ELSE \E emb \in EmbedOutcomes :
                     IF emb # "ok"
                     THEN Ends(query_miss(q, emb, CHOOSE g \in GenReplies : g.status = "ok"))
                     ELSE \E gen \in GenReplies : Goes(query_miss(q, emb, gen))
    /\ UNCHANGED << index, documents, disk_index, disk_docs, db_documents, redis_client,
                    cache, fresh, allOk >>

\* request t: _cache_response and the return of query
FinishQuery(t) ==
    /\ tasks[t].pc = "writing"
    /\ \E writeOk \in (IF redis_client THEN BOOLEAN ELSE { TRUE }) :
          LET m == tasks[t].data
              written == redis_client /\ writeOk
          IN  /\ cache' = cache_response(tasks[t].q,
                                         [response |-> m.response, sources |-> m.sources],
                                         writeOk)
              /\ tasks' = [u \in DOMAIN tasks |->
                             IF u = t
                             THEN [tasks[u] EXCEPT !.pc = "done", !.status = "ok",
                                                   !.last = written]
                             ELSE [tasks[u] EXCEPT !.last = tasks[u].last /\ ~written]]
              /\ result' = QueryResult(tasks[t].q, "ok", "none", m.response, m.sources, FALSE,
                                       m.outcome,
                                       CallsOnMiss \cup m.calls \cup CallsOnWrite,
                                       tasks[t].readOk, writeOk)
    /\ UNCHANGED << index, documents, disk_index, disk_docs, db_documents, redis_client,
                    fresh, allOk >>

\* POST /chat/query on the event loop: the handler has no await, so it runs
\* from start to end, and only while no other request holds the loop
QueryOnLoop == EventLoopFree(0) /\ Query

\* a key written by `set`, without a TTL: time leaves it in place
AfterTTL_NoExpiry(entry) == entry

\* what Redis holds under a key written by setex(key, CACHE_TTL, value)
\* once CACHE_TTL seconds have passed since the write: nothing
AfterTTL(entry) == None

\* the TTL of an entry runs out
Expire ==
    \E q \in Queries :
        /\ cache[get_cache_key(q)].state = "set"
        /\ cache' = [cache EXCEPT ![get_cache_key(q)] = AfterTTL(cache[get_cache_key(q)])]
        /\ result' = [op |-> "expire", q |-> q]
        /\ UNCHANGED << index, documents, disk_index, disk_docs, db_documents, redis_client,
                       fresh, allOk, tasks >>

Init ==
    /\ index = << >>
    /\ documents = << >>
    /\ disk_index = Absent
    /\ disk_docs = Absent
    /\ db_documents = << >>
    /\ redis_client \in BOOLEAN
    /\ cache = [k \in CacheKeys |-> None]
    /\ fresh = TRUE
    /\ allOk = TRUE
    /\ result = [op |-> "init"]
    /\ tasks = [t \in Uploaders \cup Askers |-> IdleTask]

\* indexing and persistence: uploads with every outcome of the save, restarts
NextIndex ==
    \/ UploadDocument
    \/ Restart

SpecIndex == Init /\ [][NextIndex]_vars

\* persistence under crashes: saves succeed unless the process dies in them
NextCrash ==
    \/ UploadDocumentSaved
    \/ CrashInSave
    \/ Restart

SpecCrash == Init /\ [][NextCrash]_vars

\* retrieval: uploads, and searches over what they left
NextSearch ==
    \/ UploadDocumentSaved
    \/ SearchSimilar
    \/ GetContextForQuery

SpecSearch == Init /\ [][NextSearch]_vars

\* two upload requests and the queries the event loop runs between them
NextConc ==
    \/ \E t \in Uploaders : ReceiveUpload(t)
    \/ \E t \in Uploaders : ResumeUpload(t)
    \/ \E t \in Uploaders : EmbedChunk(t)
    \/ \E t \in Uploaders : AddVectors(t)
    \/ \E t \in Uploaders : SaveAndReturn(t)
    \/ QueryOnLoop

SpecConc == Init /\ [][NextConc]_vars

\* two queries that share the Redis keyspace, their cache reads and cache
\* writes in any order, over what uploads left in the index
NextCache ==
    \/ UploadDocumentSaved
    \/ \E t \in Askers : BeginQuery(t)
    \/ \E t \in Askers : FinishQuery(t)

SpecCache == Init /\ [][NextCache]_vars

\* the similarity formula on float32 distances
NextSimilarity == ComputeSimilarity

SpecSimilarity == Init /\ [][NextSimilarity]_vars

\* queries over what uploads and restarts leave when saves may fail
NextStale ==
    \/ UploadLong
    \/ Restart
    \/ Query

SpecStale == Init /\ [][NextStale]_vars

\* the whole service on a disk that takes every save
Next ==
    \/ UploadDocumentSaved
    \/ Restart
    \/ Query
    \/ Expire

Spec == Init /\ [][Next]_vars
\* ---- claims --------------------------------------------------------------

\* C1: if an embedding call fails during index_document, the call fails and
\* the vector index and the chunk metadata list are exactly as before it.
C1_AllOrNothing ==
    [][ (result'.op = "upload_document" /\ result'.embedFailed)
        => (result'.status = "raised" /\ index' = index /\ documents' = documents) ]_vars

\* C2: starting from a freshly initialized index, as long as every
\* index_document call has returned, the vector index holds as many vectors
\* as the chunk metadata list holds records.
C2_SizesEqual ==
    (fresh /\ allOk) => Len(index) = Len(documents)

\* two uploads have been indexed, all calls returned, nothing was loaded
C2_Witness ==
    /\ fresh /\ allOk
    /\ result.op = "upload_document"
    /\ Len(db_documents) = 2
    /\ Len(index) >= 3

\* C3: when the embedding backend answers with a vector of another
\* dimension, index_document fails with InvalidResponse and leaves the
\* vector index and the chunk metadata list unchanged.
C3_WrongDimension ==
    [][ (result'.op = "upload_document" /\ result'.badDim)
        => (/\ result'.status = "raised"
            /\ result'.error = "InvalidResponse"
            /\ index' = index
            /\ documents' = documents) ]_vars
\* C4: when the generation call fails, the error answer is not written to
\* the cache, and the next identical query is not answered from the cache.
C4_ErrorNotCached ==
    [][ /\ (result'.op = "query" /\ result'.outcome = "GENERATION_FAILED")
            => cache' = cache
        /\ (/\ result.op = "query" /\ result.outcome = "GENERATION_FAILED"
            /\ result'.op = "query" /\ result'.q = result.q)
            => ~result'.cached ]_vars

\* C5: when retrieval found context and the generation call fails, query
\* returns the non-empty source list retrieval computed, with the error
\* answer.
C5_SourcesKeptOnFailure ==
    (result.op = "query" /\ result.outcome = "GENERATION_FAILED")
        => /\ result.response \in { ErrorAnswer(e) : e \in GenErrors }
           /\ result.sources # << >>
           /\ result.sources =
                BuildSources(search_similar(index, documents, EmbeddingOf(result.q),
                                            TOP_K_RESULTS), { })

\* C5 as amended: when retrieval found context and the generation call
\* fails, query returns the error answer with an empty source list; the
\* sources retrieval computed are dropped.
C5_SourcesDroppedOnFailure ==
    (result.op = "query" /\ result.outcome = "GENERATION_FAILED")
        => /\ result.status = "ok"
           /\ result.response \in { ErrorAnswer(e) : e \in GenErrors }
           /\ result.sources = << >>
           /\ BuildSources(search_similar(index, documents, EmbeddingOf(result.q),
                                          TOP_K_RESULTS), { }) # << >>

\* the generation call failed on a transport error while retrieval over
\* the index yields sources of two documents
C5_Witness ==
    /\ result.op = "query"
    /\ result.outcome = "GENERATION_FAILED"
    /\ result.response = ErrorAnswer("ConnectionError")
    /\ Len(BuildSources(search_similar(index, documents, EmbeddingOf(result.q),
                                       TOP_K_RESULTS), { })) = 2

\* C6: a failure of the generation call never leaves query as an
\* exception: query returns the error string with cache_hit = False.
C6_GenerationFailureContained ==
    (result.op = "query" /\ "generate" \in result.calls /\ result.outcome # "GENERATION_OK")
        => /\ result.status = "ok"
           /\ result.error = "none"
           /\ result.response \in { ErrorAnswer(e) : e \in GenErrors }
           /\ ~result.cached

\* query returned the error string of a malformed generation reply
C6_Witness ==
    /\ result.op = "query"
    /\ result.status = "ok"
    /\ result.response = ErrorAnswer("KeyError")
    /\ ~result.cached

\* C7: with the cache serving, a query answered by a successful generation
\* and then repeated at once is a miss then a hit, and the hit returns the
\* same answer and the same ordered sources.
C7_Idempotence ==
    [][ (/\ result.op = "query" /\ result.outcome = "GENERATION_OK"
         /\ redis_client /\ ~result.writeFailed
         /\ result'.op = "query" /\ result'.q = result.q /\ ~result'.readFailed)
        => (/\ ~result.cached
            /\ result'.status = "ok"
            /\ result'.cached
            /\ result'.response = result.response
            /\ result'.sources = result.sources) ]_vars

\* a hit that returns the generated answer with the two sources it was
\* stored with
C7_Witness ==
    /\ result.op = "query"
    /\ result.cached
    /\ result.response = << "answer" >>
    /\ Len(result.sources) = 2
    /\ Len(index) > 0

\* C8: on an empty index and without a cache entry for the query, query
\* returns the no-documents answer with no sources and cache_hit = False,
\* calls neither backend and leaves the cache without an entry for it.
C8_EmptyIndex ==
    [][ (/\ result'.op = "query"
         /\ Len(index) = 0
         /\ cache[get_cache_key(result'.q)] = None)
        => (/\ result'.status = "ok"
            /\ result'.response = NoDocumentsAnswer
            /\ result'.sources = << >>
            /\ ~result'.cached
            /\ result'.calls \cap { "embed", "search", "generate", "cache_set" } = { }
            /\ cache' = cache) ]_vars

\* the no-documents answer on an empty index with Redis connected
C8_Witness ==
    /\ result.op = "query"
    /\ result.outcome = "EMPTY_CORPUS"
    /\ Len(index) = 0
    /\ redis_client
    /\ result.calls = { "cache_get" }
    /\ \A k \in CacheKeys : cache[k] = None

\* C9: a failing cache read is a miss and a failing cache write is a
\* no-op: neither leaves query as an exception.
C9_CacheFailuresContained ==
    [][ (result'.op = "query")
        => (/\ result'.error # "RedisError"
            /\ result'.readFailed
                => (/\ ~result'.cached
                    /\ Len(index) > 0 => "embed" \in result'.calls)
            /\ result'.writeFailed
                => (/\ result'.status = "ok"
                    /\ ~result'.cached
                    /\ "generate" \in result'.calls
                    /\ cache' = cache
                    /\ result'.outcome = "GENERATION_OK"
                        => (/\ result'.response = << "answer" >>
                            /\ result'.sources # << >>))) ]_vars

\* a query whose cache read and cache write both failed returned the
\* generated answer
C9_Witness ==
    /\ result.op = "query"
    /\ result.readFailed
    /\ result.writeFailed
    /\ result.outcome = "GENERATION_OK"
    /\ result.sources # << >>

\* C10: when Redis serves an entry for the query, query returns the stored
\* answer and sources with cache_hit = True, calls neither retrieval nor
\* generation and does not write the cache.
C10_CacheHit ==
    [][ (/\ result'.op = "query"
         /\ redis_client
         /\ cache[get_cache_key(result'.q)].state = "set"
         /\ ~result'.readFailed)
        => (/\ result'.status = "ok"
            /\ result'.cached
            /\ result'.response = cache[get_cache_key(result'.q)].value[1]
            /\ Len(result'.sources) = Len(cache[get_cache_key(result'.q)].value[2])
            /\ \A i \in 1..Len(result'.sources) :
                  << result'.sources[i].document_id, result'.sources[i].filename,
                     result'.sources[i].relevance_score.num,
                     result'.sources[i].relevance_score.den >>
                  = cache[get_cache_key(result'.q)].value[2][i]
            /\ result'.calls = { "cache_get" }
            /\ cache' = cache) ]_vars

\* a hit with one source while the index holds rows of two documents
C10_Witness ==
    /\ result.op = "query"
    /\ result.outcome = "CACHE_HIT"
    /\ result.calls = { "cache_get" }
    /\ Len(result.sources) = 1
    /\ \E r \in 1..Len(documents) : documents[r].document_id = 2

\* C11: two index_document calls in flight on the same RAGService never
\* overlap: at no time are both between their first embedding and their
\* return; and once both have returned, every row r of the chunk metadata
\* list is the chunk whose embedding is row r of the vector index.
C11_IndexingMutuallyExclusive ==
    /\ \A t, u \in Uploaders :
          (/\ tasks[t].pc \in { "embedding", "adding", "saving" }
           /\ tasks[u].pc \in { "embedding", "adding", "saving" }) => t = u
    /\ (\A t \in Uploaders : tasks[t].pc = "done" /\ tasks[t].status = "ok")
          => /\ Len(index) = Len(documents)
             /\ \A r \in 1..Len(index) : index[r].x = EmbeddingOf(documents[r].content)
             /\ \A t \in Uploaders :
                   \E r \in 0..(Len(documents) - Len(tasks[t].chunks)) :
                       \A i \in 1..Len(tasks[t].chunks) :
                           documents[r + i] = ChunkRecord(tasks[t].document_id,
                                                          tasks[t].filename, i,
                                                          tasks[t].chunks[i])

\* both uploads have returned, one of them began indexing while the other
\* request was in flight, and the index holds the rows of both
C11_Witness ==
    /\ \A t \in Uploaders : tasks[t].pc = "done" /\ tasks[t].status = "ok"
    /\ \E t \in Uploaders : tasks[t].overlap
    /\ tasks[1].filename # tasks[2].filename
    /\ Len(index) = 3
    /\ Len(documents) = 3

\* C12: whenever index_document has returned successfully, the two files on
\* disk hold exactly the in-memory vector index and chunk metadata list; a
\* successful return is never reported when the save failed.
C12_DurableOnSuccess ==
    (result.op = "upload_document" /\ result.status = "ok")
        => /\ disk_index = File(write_index(index))
           /\ disk_docs = File(pickle_dump(documents))

\* C13: after any sequence of index_document calls, failed ones included,
\* the vector index and the chunk metadata list have equal length and every
\* (chunk, similarity) pair of search_similar carries the similarity of the
\* vector that was embedded from that chunk.
C13_RowsPaired ==
    /\ Len(index) = Len(documents)
    /\ \A q \in SearchQueries, k \in 1..TOP_K_RESULTS :
         LET similar_chunks == search_similar(index, documents, EmbeddingOf(q), k)
         IN  \A i \in 1..Len(similar_chunks) :
                similar_chunks[i].score =
                    Similarity((EmbeddingOf(similar_chunks[i].chunk.content) - EmbeddingOf(q))
                               * (EmbeddingOf(similar_chunks[i].chunk.content) - EmbeddingOf(q)))

\* an index_document call has appended chunk records to the metadata list
\* and has not yet added their vectors to the index
InFlightPartial(t) ==
    /\ tasks[t].pc \in { "embedding", "adding" }
    /\ Len(tasks[t].replies) > 0

\* C14: a search_similar call never runs on a state in which an
\* index_document call in flight has put its rows into one of the two
\* structures and not yet into the other.
C14_NoPartialRead ==
    [][ (result'.op = "query" /\ tasks' = tasks)
        => \A t \in Uploaders : ~InFlightPartial(t) ]_vars

\* a query searched the index that one upload had filled while the other
\* upload request was in flight, suspended before its indexing
C14_Witness ==
    /\ result.op = "query"
    /\ "search" \in result.calls
    /\ \E t, u \in Uploaders :
          /\ tasks[t].pc = "done" /\ tasks[t].status = "ok"
          /\ tasks[u].pc = "extracting"
    /\ Len(index) = Len(documents)
    /\ Len(index) > 0

\* C15: after the process died inside a save, the next load never pairs the
\* index of one save with the metadata of another: what is loaded is the
\* state of the previous save, the state the interrupted save was writing,
\* or empty, and the index holds as many rows as the metadata list records.
C15_CrashConsistentLoad ==
    [][ (result'.op = "crash")
        => (/\ Len(index') = Len(documents')
            /\ \/ /\ index' = LoadedIndex(disk_index, disk_docs)
                  /\ documents' = LoadedDocuments(disk_index, disk_docs)
               \/ /\ index' = result'.post.index
                  /\ documents' = result'.post.documents
               \/ /\ index' = << >>
                  /\ documents' = << >>) ]_vars

\* C16: when either file is missing or unreadable at the start of the
\* service, loading does not raise and leaves the vector index and the chunk
\* metadata list both empty; never one loaded and the other reset.
C16_LoadAllOrNothing ==
    [][ (/\ result'.op \in { "restart", "crash" }
         /\ (disk_index'.state # "ok" \/ disk_docs'.state # "ok"))
        => (/\ index' = << >>
            /\ documents' = << >>
            /\ fresh') ]_vars

\* a start on a readable index file with rows next to an unreadable
\* metadata file left both structures empty
C16_Witness ==
    /\ result.op = "restart"
    /\ disk_index.state = "ok"
    /\ disk_index.data.ntotal > 0
    /\ disk_docs.state = "corrupt"
    /\ index = << >>
    /\ documents = << >>

\* C17: a successful save followed by a load into a new RAGService gives
\* the same state: for every query vector and every k, search_similar
\* returns the same chunks with the same similarities in the same order.
C17_SaveLoadRoundTrip ==
    [][ (/\ result.op = "upload_document" /\ result.status = "ok"
         /\ result'.op = "restart")
        => (/\ Len(index') = Len(index)
            /\ Len(documents') = Len(documents)
            /\ \A q \in SearchQueries, k \in 1..(TOP_K_RESULTS + 1) :
                  search_similar(index', documents', EmbeddingOf(q), k)
                    = search_similar(index, documents, EmbeddingOf(q), k)) ]_vars

\* a new service loaded four rows of two documents, and a search over them
\* returns three chunks
C17_Witness ==
    /\ result.op = "restart"
    /\ ~fresh
    /\ Len(index) = 4
    /\ index = read_index(disk_index.data)
    /\ documents = pickle_load(disk_docs.data)
    /\ Len(search_similar(index, documents, EmbeddingOf("q2"), TOP_K_RESULTS)) = 3

\* C18: for every query and every k >= 1, the results of search_similar
\* are ordered by non-increasing similarity, and there are at most k of
\* them and at most as many as the vector index has rows.
C18_SearchOrdered ==
    (result.op = "search_similar" /\ result.status = "ok")
        => /\ Len(result.similar) <= result.top_k
           /\ Len(result.similar) <= Len(index)
           /\ \A i, j \in 1..Len(result.similar) :
                 i < j => result.similar[i].score.num * result.similar[j].score.den
                            >= result.similar[j].score.num * result.similar[i].score.den

\* a search with k = 3 over four rows returned three chunks, the last
\* less similar than the first
C18_Witness ==
    /\ result.op = "search_similar"
    /\ result.status = "ok"
    /\ result.top_k = 3
    /\ Len(index) = 4
    /\ Len(result.similar) = 3
    /\ result.similar[1].score.den < result.similar[3].score.den

\* rank of the first retrieved chunk of document doc_id
FirstChunkOf(similar_chunks, doc_id) ==
    CHOOSE j \in 1..Len(similar_chunks) :
        /\ similar_chunks[j].chunk.document_id = doc_id
        /\ \A h \in 1..(j - 1) : similar_chunks[h].chunk.document_id # doc_id

\* C19: the source list of get_context_for_query holds every retrieved
\* document exactly once, with the filename and the score of that
\* document's highest-ranked retrieved chunk, in the order in which the
\* documents first occur in the ranking; when all retrieved chunks are of
\* one document there is exactly one source, with a positive score.
C19_SourcesDeduplicated ==
    (result.op = "get_context_for_query" /\ result.status = "ok")
        => LET similar_chunks == result.similar
               sources == result.sources
               docs == { similar_chunks[j].chunk.document_id : j \in 1..Len(similar_chunks) }
           IN  /\ \A i, j \in 1..Len(sources) :
                     i # j => sources[i].document_id # sources[j].document_id
               /\ { sources[i].document_id : i \in 1..Len(sources) } = docs
               /\ \A i \in 1..Len(sources) :
                     LET c == similar_chunks[FirstChunkOf(similar_chunks,
                                                          sources[i].document_id)]
                     IN  /\ sources[i].filename = c.chunk.filename
                         /\ sources[i].relevance_score = c.score
               /\ \A i, j \in 1..Len(sources) :
                     i < j => FirstChunkOf(similar_chunks, sources[i].document_id)
                                < FirstChunkOf(similar_chunks, sources[j].document_id)
               /\ Cardinality(docs) = 1
                     => /\ Len(sources) = 1
                        /\ sources[1].relevance_score.num > 0
                        /\ sources[1].relevance_score.den > 0

\* three chunks of two documents were retrieved; the first document occurs
\* again at rank 3 with a lower score, and the list has two sources
C19_Witness ==
    /\ result.op = "get_context_for_query"
    /\ result.status = "ok"
    /\ Len(result.similar) = 3
    /\ result.similar[3].chunk.document_id = result.similar[1].chunk.document_id
    /\ result.similar[3].score # result.similar[1].score
    /\ Len(result.sources) = 2

\* C20: on an empty vector index search_similar returns the empty sequence
\* and get_context_for_query returns the empty context with no sources,
\* neither raises, and the embedding backend is not called, whatever it
\* would have answered.
C20_EmptyIndexSearch ==
    (result.op \in { "search_similar", "get_context_for_query" } /\ Len(index) = 0)
        => /\ result.status = "ok"
           /\ result.similar = << >>
           /\ result.calls = { }
           /\ result.op = "get_context_for_query"
                 => (result.context = << >> /\ result.sources = << >>)

\* get_context_for_query returned on an empty index while the embedding
\* backend was failing
C20_Witness ==
    /\ result.op = "get_context_for_query"
    /\ Len(index) = 0
    /\ result.emb = "error"
    /\ result.status = "ok"
    /\ result.context = << >>

\* C21: once the TTL of a cache entry has run out, a query for the same
\* text is a miss: cache_hit is False, retrieval and generation run again,
\* and the entry is written again.
C21_ExpiredIsMiss ==
    [][ (/\ result.op = "expire"
         /\ result'.op = "query"
         /\ result'.q = result.q)
        => (/\ ~result'.cached
            /\ result'.outcome # "CACHE_HIT"
            /\ Len(index) > 0 => "embed" \in result'.calls
            /\ result'.outcome \in { "GENERATION_OK", "GENERATION_FAILED" }
                  => (/\ { "embed", "search", "generate" } \subseteq result'.calls
                      /\ (redis_client /\ ~result'.writeFailed)
                            => cache'[get_cache_key(result'.q)]
                                 = Stored(json_dumps([response |-> result'.response,
                                                      sources |-> result'.sources])))) ]_vars

\* the entry of the query text has expired while Redis is connected and
\* the index holds rows: the next query for the text finds no entry
C21_Witness ==
    /\ result.op = "expire"
    /\ redis_client
    /\ cache[get_cache_key(result.q)] = None
    /\ Len(index) > 0
    /\ Len(index) = Len(documents)

\* C22: every index_document call leaves the rows that were in the vector
\* index and in the chunk metadata list where they were; a successful call
\* of n chunks appends n rows at the end of each, in chunk order, with
\* chunk_index 0..n-1.
C22_AppendOnly ==
    [][ (result'.op = "upload_document")
        => (/\ Len(index') >= Len(index)
            /\ SubSeq(index', 1, Len(index)) = index
            /\ Len(documents') >= Len(documents)
            /\ SubSeq(documents', 1, Len(documents)) = documents
            /\ result'.status = "ok"
                  => LET document_id == Len(db_documents')
                         file == CHOOSE f \in Files :
                                    f.filename = db_documents'[document_id].filename
                         n == Len(file.chunks)
                     IN  /\ Len(index') = Len(index) + n
                         /\ Len(documents') = Len(documents) + n
                         /\ \A i \in 1..n :
                               /\ index'[Len(index) + i].x = EmbeddingOf(file.chunks[i])
                               /\ documents'[Len(documents) + i].document_id = document_id
                               /\ documents'[Len(documents) + i].chunk_index = i - 1
                               /\ documents'[Len(documents) + i].content = file.chunks[i]) ]_vars

\* the second upload has returned: its two chunks are rows 2 and 3, after
\* the row of the first
C22_Witness ==
    /\ result.op = "upload_document"
    /\ result.status = "ok"
    /\ Len(db_documents) = 2
    /\ Len(index) = 3
    /\ Len(documents) = 3
    /\ documents[1].document_id = 1
    /\ documents[2].document_id = 2 /\ documents[2].chunk_index = 0
    /\ documents[3].document_id = 2 /\ documents[3].chunk_index = 1

\* the cache entry that holds the answer and the sources of request t
EntryOf(t) ==
    Stored(json_dumps([response |-> tasks[t].data.response,
                       sources |-> tasks[t].data.sources]))

\* C23: when two queries with the same text both miss the cache and run
\* side by side, both return with cache_hit = False, the cache holds the
\* answer and sources of the one that wrote last, and at no time does an
\* entry mix the answer of one with the sources of the other.
C23_LastWriteWins ==
    /\ \A t \in Askers :
          (tasks[t].pc = "done" /\ tasks[t].data.state = "miss" /\ tasks[t].data.write)
            => (tasks[t].status = "ok" /\ ~tasks[t].cached)
    /\ \A t \in Askers :
          tasks[t].last => cache[get_cache_key(tasks[t].q)] = EntryOf(t)
    /\ \A k \in CacheKeys :
          cache[k].state = "set"
            => \E t \in Askers :
                  /\ tasks[t].pc = "done"
                  /\ tasks[t].data.state = "miss"
                  /\ get_cache_key(tasks[t].q) = k
                  /\ cache[k] = EntryOf(t)

\* both queries missed and wrote, the second began while the first stood
\* before its cache write, their results differ, and the entry is the
\* result of the one that wrote last
C23_Witness ==
    /\ \A t \in Askers :
          /\ tasks[t].pc = "done"
          /\ tasks[t].data.state = "miss"
          /\ tasks[t].data.write
          /\ ~tasks[t].cached
    /\ tasks[3].q = tasks[4].q
    /\ \E t \in Askers : tasks[t].overlap
    /\ EntryOf(3) # EntryOf(4)
    /\ \E t \in Askers : tasks[t].last /\ cache[get_cache_key(tasks[t].q)] = EntryOf(t)

C25_CannedOnlyWhenEmpty ==
    [][ (/\ result'.op = "query"
         /\ tasks' = tasks
         /\ Len(index) > 0
         /\ ~result'.cached
         /\ result'.outcome # "EMBED_FAILED")
        => (/\ result'.response # NoDocumentsAnswer
            /\ "generate" \in result'.calls) ]_vars

\* C26: index_document does not touch the response cache: an upload leaves
\* every entry as it was, and a query that follows it and finds an entry
\* for its text returns that entry as a hit, although the corpus changed.
C26_UploadKeepsCache ==
    [][ /\ (result'.op = "upload_document") => cache' = cache
        /\ (/\ result.op = "upload_document"
            /\ result'.op = "query"
            /\ redis_client
            /\ cache[get_cache_key(result'.q)].state = "set"
            /\ ~result'.readFailed)
            => (/\ result'.cached
                /\ result'.response = json_loads(cache[get_cache_key(result'.q)].value).response
                /\ result'.sources = json_loads(cache[get_cache_key(result'.q)].value).sources
                /\ cache' = cache) ]_vars

\* a hit after the second upload returned the entry stored before it:
\* its sources name one document, retrieval now would name two
C26_Witness ==
    /\ result.op = "query"
    /\ result.cached
    /\ result.response = << "answer" >>
    /\ Len(result.sources) = 1
    /\ Len(db_documents) = 2
    /\ Len(BuildSources(search_similar(index, documents, EmbeddingOf(result.q),
                                       TOP_K_RESULTS), { })) = 2

\* C27: when the index holds rows and the embedding call for the query text
\* fails, query raises to its caller instead of returning an error string,
\* does not call the generation backend and writes nothing to the cache.
C27_EmbeddingFailureRaises ==
    [][ (/\ result'.op = "query"
         /\ tasks' = tasks
         /\ result'.outcome = "EMBED_FAILED")
        => (/\ Len(index) > 0
            /\ result'.status = "raised"
            /\ result'.error \in { "RequestException", "AssertionError" }
            /\ result'.response = << >>
            /\ ~result'.cached
            /\ result'.calls \cap { "generate", "cache_set" } = { }
            /\ cache' = cache) ]_vars

\* a query on an index with rows raised the exception of the embedding
\* call, with Redis connected and no entry for the text
C27_Witness ==
    /\ result.op = "query"
    /\ result.outcome = "EMBED_FAILED"
    /\ result.status = "raised"
    /\ result.error = "RequestException"
    /\ "embed" \in result.calls
    /\ redis_client
    /\ cache[get_cache_key(result.q)] = None
    /\ Len(index) > 0

\* C28: search_similar, get_context_for_query and query leave the vector
\* index, the chunk metadata list and the two files on disk as they were,
\* whatever their outcome.
C28_ReadsChangeNothing ==
    [][ (/\ result'.op \in { "query", "search_similar", "get_context_for_query" }
         /\ tasks' = tasks)
        => (/\ index' = index
            /\ documents' = documents
            /\ disk_index' = disk_index
            /\ disk_docs' = disk_docs) ]_vars

\* a query raised on the embedding call while the metadata list holds a
\* record more than the index holds rows, and both files are on disk
C28_Witness ==
    /\ result.op = "query"
    /\ result.status = "raised"
    /\ Len(index) > 0
    /\ Len(documents) > Len(index)
    /\ disk_index.state = "ok"
    /\ disk_docs.state = "ok"

\* C29: the chat endpoint writes exactly one chat-history record for every
\* query that returns with cached = False, the canned answer and the
\* error answer of a failed generation included, and none for a query
\* answered from the cache.
C29_HistoryOnMiss ==
    (result.op = "query")
        => /\ (result.status = "ok" /\ ~result.cached) => result.history = 1
           /\ result.cached => result.history = 0
           /\ result.outcome = "CACHE_HIT" => result.history = 0
           /\ (result.status = "ok" /\ result.outcome \in { "EMPTY_CORPUS", "GENERATION_OK",
                                                           "GENERATION_FAILED" })
                 => result.history = 1

\* the error answer of a failed generation was returned as a hit: no
\* record is written for it
C29_Witness ==
    /\ result.op = "query"
    /\ result.cached
    /\ result.response = ErrorAnswer("HTTPError")
    /\ result.history = 0

\* C30: when index_document fails during an upload, upload_document fails
\* with HTTP 500 and the document row created before indexing stays, with
\* no embedding_id; when indexing succeeds the row carries the reference
\* index_document returned.  In both cases the rows of earlier uploads are
\* as they were.
C30_UploadRecord ==
    [][ (result'.op = "upload_document")
        => LET document_id == Len(db_documents) + 1
           IN  /\ Len(db_documents') = document_id
               /\ SubSeq(db_documents', 1, Len(db_documents)) = db_documents
               /\ (result'.embedFailed \/ result'.badDim)
                     => (/\ result'.status = "raised"
                         /\ result'.http = 500
                         /\ db_documents'[document_id].embedding_id = None)
               /\ ~(result'.embedFailed \/ result'.badDim)
                     => (/\ result'.status = "ok"
                         /\ result'.http = 200
                         /\ db_documents'[document_id].embedding_id.state = "ok"
                         /\ db_documents'[document_id].embedding_id.document_id = document_id
                         /\ db_documents'[document_id].embedding_id.nchunks
                               = Len((CHOOSE f \in Files :
                                        f.filename = db_documents'[document_id].filename).chunks))
       ]_vars

\* the second upload failed with HTTP 500 on a vector of another
\* dimension: its row has no embedding_id, the row of the first has one
C30_Witness ==
    /\ result.op = "upload_document"
    /\ result.http = 500
    /\ result.badDim
    /\ ~result.embedFailed
    /\ Len(db_documents) = 2
    /\ db_documents[1].embedding_id.state = "ok"
    /\ db_documents[2].embedding_id = None
====
